---- MODULE Spec2Model ----
\* Aurora orchestrator (src/aurora_orchestrator.py): the module registry
\* (load_modules), the five task adapters, and the cycle scheduler
\* (run_cycle / run) on a single asyncio event loop.
\*
\* Capability providers and the Memory collaborator are opaque: each call
\* made by the orchestrator either returns a value or raises an Exception.
\* Times are integers in milliseconds.
EXTENDS Integers, Sequences, FiniteSets, TLC

VARIABLES
    pc,             \* position of the run()/run_cycle() coroutine
    modules,        \* self.modules: name -> "module" | "None"
    narrative,      \* self.narrative
    cycle_counter,  \* global cycle_counter
    wait_time,      \* wait_time of the last completed run_cycle (ms)
    ready,          \* event loop FIFO of the tasks created by asyncio.gather
    done,           \* tasks of the current gather that have finished
    memory,         \* items held by the Memory collaborator
    calls,          \* provider / Memory calls made since the cycle began
    logs,           \* log records emitted since the cycle began
    load_env,       \* per name: did the provider's source load at the last load_modules
    load_pre,       \* self.modules as it was when the last load_modules began
    snap,           \* self.narrative as it was when the current cycle began
    before,         \* the adapter that ran last, and personality and memory when it began
    reloads,        \* load_modules calls made by run_cycle so far
    metric_writes,  \* writes of narrative["metrics"] since the cycle began
    module_dict,    \* the module object of the Memory provider: the names it binds
    gui,            \* the aurora_gui.py program: where it is, messages submitted, responses put
    shell           \* aurora_interactive.py: the six instances and the command loop

vars == <<pc, modules, narrative, cycle_counter, wait_time, ready, done,
          memory, calls, logs, load_env, load_pre, snap, before, reloads,
          metric_writes, module_dict, gui, shell>>

\* The state of the orchestrator and of its run loop.
orch_vars == <<pc, modules, narrative, cycle_counter, wait_time, ready, done,
               memory, calls, logs, load_env, load_pre, snap, before, reloads,
               metric_writes>>

----------------------------------------------------------------------------
\* Bounds of the model.

\* run() loops forever; the model stops starting cycles after this many.
MaxCycles == 2

\* Measured cycle durations (ms) the clock may report.
Durations == {200, 3000}

\* Longest measured duration of the wait-formula specification, in clock
\* ticks; a tick is the duration whose damped share is one millisecond.
MaxTicks == 700

----------------------------------------------------------------------------
\* Program constants (milliseconds; damping 0.1 = 1/10).

cycle_wait == 1000
floor_wait == 500
damping_den == 10

module_names ==
    << "cognitive_engine", "learning_module", "memory_module",
       "code_generator", "research_module", "personality_module" >>

Names == { module_names[i] : i \in 1..Len(module_names) }

\* Variant: the personality coroutine is handed to the gather first.
tasks_personality_first ==
    << "personality", "cognition", "learning", "code_update", "research" >>

\* Variant: the research coroutine is the first argument of the gather.
tasks_research_first ==
    << "research", "cognition", "learning", "code_update", "personality" >>

\* The coroutines handed to asyncio.gather, in argument order.
tasks == << "cognition", "learning", "code_update", "research", "personality" >>

TaskSet == { tasks[i] : i \in 1..Len(tasks) }

\* Values the opaque providers may return.
Thoughts == { "thought" }
Topics == { "topic" }
Results == { "result" }
NonString == "<non-string>"
Analyses == { "analysis", NonString }
Personalities == { "curious" }
Raise == "<raise>"

no_summary == "No memory summary available."
analysis_tag == "GPT Analysis: "

Max(a, b) == IF a >= b THEN a ELSE b

----------------------------------------------------------------------------
\* Narrative.

init_narrative ==
    [ identity    |-> "Aurora",
      backstory   |-> "prompt",
      mission     |-> "Learn and evolve across all domains.",
      personality |-> "undefined",
      metrics     |-> << >> ]

----------------------------------------------------------------------------
\* Module registry.

Log(level, msg, arg) == [ level |-> level, msg |-> msg, arg |-> arg ]

\* The record init_narrative emits before it returns the narrative.  The
\* arg field of a record is the name a load record is about; the narrative
\* this record prints is the value of the variable narrative.
narrative_log == Log("INFO", "Narrative initialized: %s", "")

\* m with key k bound to v (dict item assignment).
Put(m, k, v) == [ x \in (DOMAIN m) \cup {k} |-> IF x = k THEN v ELSE m[x] ]

\* self.modules.get(name) is truthy.
Available(m, name) == name \in DOMAIN m /\ m[name] = "module"

\* Variant: only the first import can succeed; importlib.reload of a module
\* that is in the map raises.
load_succeeds_import_only(m, name, ok) ==
    name \notin DOMAIN m /\ ok

\* One iteration of the for loop: TRUE iff the try body reaches the
\* assignment.  importlib.reload(None) raises TypeError, whatever the source.
load_succeeds(m, name, ok) ==
    IF name \in DOMAIN m
    THEN m[name] = "module" /\ ok
    ELSE ok

\* Variant: a failed load leaves the map as it was (no None entry).
load_one_drop(m, name, ok) ==
    IF load_succeeds(m, name, ok) THEN Put(m, name, "module") ELSE m

load_one(m, name, ok) ==
    Put(m, name, IF load_succeeds(m, name, ok) THEN "module" ELSE "None")

\* Variant: a successful reload is reported as a first load.
load_log_says_loaded(m, name, ok) ==
    IF load_succeeds(m, name, ok)
    THEN Log("INFO", "Loaded module: %s", name)
    ELSE Log("ERROR", "Error loading module %s: %s", name)

load_log(m, name, ok) ==
    IF load_succeeds(m, name, ok)
    THEN IF name \in DOMAIN m
         THEN Log("INFO", "Reloaded module: %s", name)
         ELSE Log("INFO", "Loaded module: %s", name)
    ELSE Log("ERROR", "Error loading module %s: %s", name)

RECURSIVE load_loop(_, _, _)

\* Variant: one try around the whole loop, so the first failure ends it.
load_loop_abort(i, st, env) ==
    IF i > Len(module_names)
    THEN st
    ELSE LET name == module_names[i]
             nxt  == [ map  |-> load_one(st.map, name, env[name]),
                       logs |-> Append(st.logs, load_log(st.map, name, env[name])) ]
         IN  IF load_succeeds(st.map, name, env[name])
             THEN load_loop(i + 1, nxt, env)
             ELSE nxt

load_loop(i, st, env) ==
    IF i > Len(module_names)
    THEN st
    ELSE LET name == module_names[i]
         IN  load_loop(i + 1,
                       [ map  |-> load_one(st.map, name, env[name]),
                         logs |-> Append(st.logs, load_log(st.map, name, env[name])) ],
                       env)

\* load_modules on map m when the providers' sources load as env says.
load_modules(m, env) == load_loop(1, [ map |-> m, logs |-> << >> ], env)

----------------------------------------------------------------------------
\* Strings are sequences of tokens, so that + is concatenation.

Str(x) == << x >>

\* Memory collaborator: store appends the item, get_memory_summary
\* aggregates the stored items.
memory_store(mem, item) == Append(mem, item)

\* importlib.reload executes the provider's source again in the same
\* module object, and what the source has bound when it ends stays bound,
\* whether it ends normally or by an exception: the items held in the
\* module are lost when the execution binds the name that holds them again
\* (rebinds), and kept when it does not (a lazily created store, or a
\* failure before the binding).  When the handle is None, importlib.reload
\* raises before any source is executed and the items stay where they are,
\* out of reach.
memory_after_reload(mem, m, rebinds) ==
    IF Available(m, "memory_module") /\ rebinds
    THEN << >>
    ELSE mem

RECURSIVE memory_summary(_)
memory_summary(mem) ==
    IF mem = << >> THEN << >> ELSE Head(mem) \o memory_summary(Tail(mem))

----------------------------------------------------------------------------
\* Task adapters.  An effect is what a coroutine body has done when it
\* ends: raised says that it ended by an exception.

Effect(mem, personality) ==
    [ memory |-> mem, personality |-> personality,
      calls |-> << >>, logs |-> << >>, raised |-> FALSE ]

\* A call of a provider or Memory operation that returns ret or raises.
Call(e, task, op, arg, ret) ==
    [ e EXCEPT !.calls = Append(@, [ task |-> task, op |-> op, arg |-> arg,
                                     ret |-> Str(ret) ]),
               !.raised = (ret = Raise) ]

Emit(e, level, msg) == [ e EXCEPT !.logs = Append(@, Log(level, msg, "")) ]

\* Variant: the adapter sets the store to the item instead of adding the
\* item to it.
Store_overwrites(e, item) == [ e EXCEPT !.memory = << item >> ]

Store(e, item) == [ e EXCEPT !.memory = memory_store(@, item) ]

\* except Exception as e: logger.error(...)
Catch(e, msg) ==
    IF e.raised THEN [ Emit(e, "ERROR", msg) EXCEPT !.raised = FALSE ] ELSE e

NarrativeArg(n) == << "narrative", n.personality >>

Outcome(ok) == IF ok THEN "None" ELSE Raise

\* Variant: the narrative is stored in Memory before it is processed.
cognition_body_store_first(m, mem, n, in) ==
    LET e0 == Effect(mem, n.personality)
    IN  IF ~Available(m, "cognitive_engine") THEN e0
        ELSE
        LET e1 == IF Available(m, "memory_module")
                  THEN Store(Call(e0, "cognition", "store", NarrativeArg(n), "None"),
                             NarrativeArg(n))
                  ELSE e0
            e2 == Call(e1, "cognition", "process", NarrativeArg(n), in.thought)
        IN  IF e2.raised THEN e2
            ELSE Emit(e2, "INFO", "Processed thought: %s")

\* Variant: the thought is also written to the narrative as the personality.
cognition_body_sets_personality(m, mem, n, in) ==
    LET e0 == Effect(mem, n.personality)
    IN  IF ~Available(m, "cognitive_engine") THEN e0
        ELSE
        LET e1 == Call(e0, "cognition", "process", NarrativeArg(n), in.thought)
        IN  IF e1.raised THEN e1
            ELSE Emit([ e1 EXCEPT !.personality = in.thought ],
                      "INFO", "Processed thought: %s")

cognition_body(m, mem, n, in) ==
    LET e0 == Effect(mem, n.personality)
    IN  IF ~Available(m, "cognitive_engine") THEN e0
        ELSE
        LET e1 == Call(e0, "cognition", "process", NarrativeArg(n), in.thought)
        IN  IF e1.raised THEN e1
            ELSE IF Available(m, "memory_module")
            THEN LET e2 == Call(e1, "cognition", "store", Str(in.thought),
                                Outcome(in.store_ok))
                 IN  IF e2.raised THEN e2
                     ELSE Emit(Store(e2, Str(in.thought)), "INFO", "Processed thought: %s")
            ELSE Emit(e1, "INFO", "Processed thought: %s")

learning_body(m, mem, n, in) ==
    LET e0 == Effect(mem, n.personality)
    IN  IF ~Available(m, "learning_module") THEN e0
        ELSE
        LET e1 == Call(e0, "learning", "learn", NarrativeArg(n), Outcome(in.ok))
        IN  IF e1.raised THEN e1
            ELSE Emit(e1, "INFO", "Learning module processed narrative.")

code_update_body(m, mem, n, in) ==
    LET e0 == Effect(mem, n.personality)
    IN  IF ~Available(m, "code_generator") THEN e0
        ELSE
        LET e1 == Call(e0, "code_update", "dynamic_update", << >>, Outcome(in.ok))
        IN  IF e1.raised THEN e1
            ELSE Emit(e1, "INFO", "Code generator checked for updates.")

\* The branch of process_research taken when research_mod is truthy.
research_pipeline(m, mem, n, in) ==
    LET e0 == Effect(mem, n.personality)
        hasmem == Available(m, "memory_module")
    IN  LET e1 == IF hasmem
                  THEN Call(e0, "research", "get_memory_summary", << >>,
                            IF in.summary_ok THEN "summary" ELSE Raise)
                  ELSE e0
            context == IF hasmem THEN memory_summary(mem) ELSE Str(no_summary)
        IN  IF e1.raised THEN e1
        ELSE
        LET e2 == Call(e1, "research", "generate_topic", context, in.topic)
        IN  IF e2.raised THEN e2
        ELSE
        LET e3 == Call(Emit(e2, "INFO", "Generated research topic: %s"),
                       "research", "research", Str(in.topic), in.result)
        IN  IF e3.raised THEN e3
        ELSE
        LET e4 == IF hasmem
                  THEN Call(e3, "research", "store", Str(in.result),
                            Outcome(in.store1_ok))
                  ELSE e3
        IN  IF e4.raised THEN e4
        ELSE
        LET e5 == Emit(IF hasmem THEN Store(e4, Str(in.result)) ELSE e4,
                       "INFO", "Research result: %s")
            e6 == Call(e5, "research", "analyze_research", Str(in.result),
                       in.analysis)
        IN  IF e6.raised THEN e6
        ELSE
        LET e7 == Emit(e6, "INFO", "GPT analysis: %s")
        IN  IF ~hasmem THEN e7
            \* "GPT Analysis: " + analysis is a TypeError unless analysis is a str
            ELSE IF in.analysis = NonString THEN [ e7 EXCEPT !.raised = TRUE ]
            ELSE
            LET item == Str(analysis_tag) \o Str(in.analysis)
                e8 == Call(e7, "research", "store", item, Outcome(in.store2_ok))
            IN  IF e8.raised THEN e8 ELSE Store(e8, item)

\* Variant: no test of research_mod, so None.generate_topic raises after
\* the memory summary has been read.
research_body_ungated(m, mem, n, in) ==
    IF Available(m, "research_module")
    THEN research_pipeline(m, mem, n, in)
    ELSE LET e0 == Effect(mem, n.personality)
             e1 == IF Available(m, "memory_module")
                   THEN Call(e0, "research", "get_memory_summary", << >>,
                             IF in.summary_ok THEN "summary" ELSE Raise)
                   ELSE e0
         IN  [ e1 EXCEPT !.raised = TRUE ]

\* Variant: the memory summary has a try of its own: when it raises, the
\* pipeline goes on with the "no summary" sentinel.
research_body_summary_fallback(m, mem, n, in) ==
    IF Available(m, "research_module")
    THEN LET e == research_pipeline(m, mem, n, in)
         IN  IF e.raised /\ Len(e.calls) = 1 /\ e.calls[1].op = "get_memory_summary"
             THEN Call(e, "research", "generate_topic", Str(no_summary), "topic")
             ELSE e
    ELSE Emit(Effect(mem, n.personality), "WARNING", "Research module not loaded.")

\* Variant: the research result is stored once more after the analysis.
research_body_stores_again(m, mem, n, in) ==
    IF Available(m, "research_module")
    THEN LET e == research_pipeline(m, mem, n, in)
         IN  IF ~e.raised /\ Len(e.calls) = 6
             THEN Store(Call(e, "research", "store", e.calls[4].arg, "None"),
                        e.calls[4].arg)
             ELSE e
    ELSE Emit(Effect(mem, n.personality), "WARNING", "Research module not loaded.")

\* Variant: the result is analysed before it is stored (the fourth and
\* fifth calls of the pipeline change places).
research_body_analyze_first(m, mem, n, in) ==
    IF Available(m, "research_module")
    THEN LET e == research_pipeline(m, mem, n, in)
             c == e.calls
         IN  IF Len(c) >= 5
             THEN [ e EXCEPT !.calls =
                      [ i \in 1..Len(c) |-> IF i = 4 THEN c[5]
                                             ELSE IF i = 5 THEN c[4] ELSE c[i] ] ]
             ELSE e
    ELSE Emit(Effect(mem, n.personality), "WARNING", "Research module not loaded.")

research_body(m, mem, n, in) ==
    IF Available(m, "research_module")
    THEN research_pipeline(m, mem, n, in)
    ELSE Emit(Effect(mem, n.personality), "WARNING", "Research module not loaded.")

\* Variant: the generated personality is logged but not assigned.
personality_update_discards(e0, n, context, summary_call, in) ==
    LET e1 == IF summary_call
              THEN Call(e0, "personality", "get_memory_summary", << >>,
                        IF in.summary_ok THEN "summary" ELSE Raise)
              ELSE e0
    IN  IF e1.raised THEN e1
        ELSE
        LET e2 == Call(e1, "personality", "generate_personality",
                       NarrativeArg(n) \o context, in.personality)
        IN  IF e2.raised THEN e2
            ELSE Emit(e2, "INFO", "Updated personality: %s")

\* The branch of process_personality taken when the gate is open; summary is
\* what the memory summary call does.
personality_update(e0, n, context, summary_call, in) ==
    LET e1 == IF summary_call
              THEN Call(e0, "personality", "get_memory_summary", << >>,
                        IF in.summary_ok THEN "summary" ELSE Raise)
              ELSE e0
    IN  IF e1.raised THEN e1
        ELSE
        LET e2 == Call(e1, "personality", "generate_personality",
                       NarrativeArg(n) \o context, in.personality)
        IN  IF e2.raised THEN e2
            ELSE Emit([ e2 EXCEPT !.personality = in.personality ],
                      "INFO", "Updated personality: %s")

\* Variant: the gate tests pers_mod only and falls back to the "no summary"
\* sentinel, as process_research does.
personality_body_no_memory_gate(m, mem, n, in) ==
    LET e0 == Effect(mem, n.personality)
        hasmem == Available(m, "memory_module")
    IN  IF ~Available(m, "personality_module")
        THEN Emit(e0, "WARNING",
                  "Personality or memory module not loaded; skipping personality update.")
        ELSE personality_update(e0, n,
                                IF hasmem THEN memory_summary(mem) ELSE Str(no_summary),
                                hasmem, in)

\* Variant: a placeholder is written to the narrative before the calls.
personality_body_early_write(m, mem, n, in) ==
    LET e0 == Effect(mem, n.personality)
    IN  IF ~(Available(m, "personality_module") /\ Available(m, "memory_module"))
        THEN Emit(e0, "WARNING",
                  "Personality or memory module not loaded; skipping personality update.")
        ELSE personality_update([ e0 EXCEPT !.personality = "updating" ], n,
                                memory_summary(mem), TRUE, in)

personality_body(m, mem, n, in) ==
    LET e0 == Effect(mem, n.personality)
    IN  IF ~(Available(m, "personality_module") /\ Available(m, "memory_module"))
        THEN Emit(e0, "WARNING",
                  "Personality or memory module not loaded; skipping personality update.")
        ELSE personality_update(e0, n, memory_summary(mem), TRUE, in)

\* What the calls of one adapter run do: a value returned, or Raise.  A call
\* that follows a raising call is never made, so its outcome is no input:
\* it is fixed to a success.
CognitionInputs ==
    { in \in [ thought : Thoughts \cup {Raise}, store_ok : BOOLEAN ] :
        in.thought = Raise => in.store_ok }

OkInputs == [ ok : BOOLEAN ]

ResearchInputs ==
    { in \in [ summary_ok : BOOLEAN, topic : Topics \cup {Raise},
               result : Results \cup {Raise}, store1_ok : BOOLEAN,
               analysis : Analyses \cup {Raise}, store2_ok : BOOLEAN ] :
        /\ ~in.summary_ok => in.topic # Raise
        /\ (~in.summary_ok \/ in.topic = Raise) => in.result # Raise
        /\ (~in.summary_ok \/ in.topic = Raise \/ in.result = Raise) => in.store1_ok
        /\ (~in.summary_ok \/ in.topic = Raise \/ in.result = Raise \/ ~in.store1_ok)
              => in.analysis \in Analyses \ {NonString}
        /\ in.analysis \notin Analyses \ {NonString} => in.store2_ok }

PersonalityInputs ==
    { in \in [ summary_ok : BOOLEAN, personality : Personalities \cup {Raise} ] :
        ~in.summary_ok => in.personality # Raise }

----------------------------------------------------------------------------
\* No module object has been created yet (nothing in sys.modules).
NoObject == [ names |-> << >>, source |-> << >>, last |-> "" ]

\* aurora_gui.py has not been started: there is no window to submit a
\* message through and no response queue; sent counts the messages
\* submitted, put holds the responses placed on the response queue.
NoGui == [ pc |-> "off", sent |-> 0, put |-> << >> ]

\* aurora_interactive.py before initialize_system: the six global instances
\* as their constructors leave them.
NoShell ==
    [ pc |-> "start", loaded |-> [ n \in Names |-> FALSE ],
      personality |-> "undefined", memories |-> << >>,
      session_log |-> << >>, learning_log |-> << >>, research_log |-> << >>,
      last |-> << >>, count |-> 0 ]

Init ==
    /\ pc = "init"
    /\ modules = << >>
    /\ narrative = init_narrative
    /\ cycle_counter = 0
    /\ wait_time = 0
    /\ ready = << >>
    /\ done = {}
    /\ memory = << >>
    /\ calls = << >>
    /\ logs = << narrative_log >>
    /\ load_env = [ n \in Names |-> TRUE ]
    /\ load_pre = << >>
    /\ snap = init_narrative
    /\ before = [ task |-> "", personality |-> "undefined", memory |-> << >> ]
    /\ reloads = 0
    /\ metric_writes = 0
    /\ module_dict = NoObject
    /\ gui = NoGui
    /\ shell = NoShell

\* The ways the six providers' sources may load or fail at a load_modules.
LoadEnvs == [ Names -> BOOLEAN ]

\* AuroraOrchestrator.__init__ after init_narrative: the first load_modules,
\* with the sources loading as one of Envs says; its six records follow the
\* record of init_narrative.
ConstructFrom(Envs) ==
    /\ pc = "init"
    /\ \E env \in Envs :
          LET r == load_modules(modules, env)
          IN  /\ modules' = r.map
              /\ logs' = logs \o r.logs
              /\ load_env' = env
              /\ load_pre' = modules
    /\ pc' = "Reloading"
    /\ UNCHANGED << narrative, cycle_counter, wait_time, ready, done, memory,
                    calls, snap, before, reloads, metric_writes,
                    module_dict, gui, shell >>

Construct == ConstructFrom(LoadEnvs)

\* Variant: the modules are loaded in the first cycle only.
Reload_first_cycle_only ==
    /\ pc = "Reloading"
    /\ cycle_counter < MaxCycles
    /\ IF cycle_counter = 0
       THEN /\ \E env \in [ Names -> BOOLEAN ] :
                  LET r == load_modules(modules, env)
                  IN  /\ modules' = r.map
                      /\ logs' = r.logs
                      /\ load_env' = env
                      /\ load_pre' = modules
            /\ reloads' = reloads + 1
       ELSE UNCHANGED << modules, logs, load_env, load_pre, reloads >>
    /\ pc' = "Running"
    /\ UNCHANGED << narrative, cycle_counter, wait_time, ready, done, memory,
                    calls, snap, before, metric_writes,
                    module_dict, gui, shell >>

\* run_cycle: start_time = time.time(); self.load_modules(), with the
\* sources loading as one of Envs says and the execution of Memory's source
\* binding its store again or not, as one of Rebinds says.
ReloadFrom(Envs, Rebinds) ==
    /\ pc = "Reloading"
    /\ cycle_counter < MaxCycles
    /\ \E env \in Envs, rebinds \in Rebinds :
          \E r \in { load_modules(modules, env) } :
              /\ modules' = r.map
              /\ logs' = r.logs
              /\ load_env' = env
              /\ load_pre' = modules
              /\ memory' = memory_after_reload(memory, modules, rebinds)
    /\ reloads' = reloads + 1
    /\ pc' = "Running"
    /\ UNCHANGED << narrative, cycle_counter, wait_time, ready, done, calls,
                    snap, before, metric_writes,
                    module_dict, gui, shell >>

Reload == ReloadFrom(LoadEnvs, BOOLEAN)

\* Variant: the cycle is counted when its tasks are created.
FanOut_counts_cycle ==
    /\ pc = "Running"
    /\ ready' = tasks
    /\ pc' = "Joining"
    /\ cycle_counter' = cycle_counter + 1
    /\ load_env' = [ n \in Names |-> TRUE ]
    /\ load_pre' = modules
    /\ UNCHANGED << modules, narrative, wait_time, done, memory,
                    calls, logs, snap, before, reloads, metric_writes,
                    module_dict, gui, shell >>

\* tasks = [...]; asyncio.gather(*tasks) schedules one Task per coroutine,
\* in argument order, and run_cycle suspends on the gather.
FanOut ==
    /\ pc = "Running"
    /\ ready' = tasks
    /\ pc' = "Joining"
    /\ load_env' = [ n \in Names |-> TRUE ]
    /\ load_pre' = modules
    /\ UNCHANGED << modules, narrative, cycle_counter, wait_time, done, memory,
                    calls, logs, snap, before, reloads, metric_writes,
                    module_dict, gui, shell >>

\* What stands for the result of a call that has not returned.
Pending == "<pending>"

\* The loop's thread is inside a call that has not returned: the adapters
\* call their providers synchronously, so nothing else runs on the loop.
Stalled == calls # << >> /\ calls[Len(calls)].ret = Str(Pending)

\* Variant: the loop runs the task at the head of its queue whether or not a
\* call is still pending (the pending call is abandoned after a timeout).
Turn_after_timeout(task) == pc = "Joining" /\ ready # << >> /\ Head(ready) = task

\* The event loop runs the task at the head of its queue.
Turn(task) == pc = "Joining" /\ ready # << >> /\ Head(ready) = task /\ ~Stalled

\* Variant: dynamic_update registers the module it has generated in the
\* orchestrator's map.
FinishWith_registers(task, e, metrics, rest, fin) ==
    /\ before' = [ task |-> task, personality |-> narrative.personality,
                   memory |-> memory ]
    /\ memory' = e.memory
    /\ narrative' = [ narrative EXCEPT !.personality = e.personality,
                                       !.metrics = metrics ]
    /\ calls' = calls \o e.calls
    /\ logs' = logs \o e.logs
    /\ ready' = rest
    /\ done' = fin
    /\ pc' = IF e.raised THEN "crashed" ELSE pc
    /\ metric_writes' = IF metrics = narrative.metrics THEN metric_writes
                        ELSE metric_writes + 1
    /\ modules' = IF \E i \in 1..Len(e.calls) : e.calls[i].op = "dynamic_update"
                  THEN Put(modules, "new_module", "module")
                  ELSE modules
    /\ UNCHANGED << cycle_counter, wait_time, load_env, load_pre, snap,
                    reloads, module_dict, gui, shell >>

\* A coroutine without a suspension point runs to its end in one step; an
\* exception it lets out reaches run_cycle through the gather and ends run().
\* rest is the loop's queue afterwards, fin the tasks finished.
FinishWith(task, e, metrics, rest, fin) ==
    /\ before' = [ task |-> task, personality |-> narrative.personality,
                   memory |-> memory ]
    /\ memory' = e.memory
    /\ narrative' = [ narrative EXCEPT !.personality = e.personality,
                                       !.metrics = metrics ]
    /\ calls' = calls \o e.calls
    /\ logs' = logs \o e.logs
    /\ ready' = rest
    /\ done' = fin
    /\ pc' = IF e.raised THEN "crashed" ELSE pc
    /\ metric_writes' = IF metrics = narrative.metrics THEN metric_writes
                        ELSE metric_writes + 1
    /\ UNCHANGED << modules, cycle_counter, wait_time, load_env, load_pre, snap,
                    reloads,
                    module_dict, gui, shell >>

\* Variant: the adapter records a metric of its own.
Finish_writes_metric(task, e) ==
    FinishWith(task, e, [ k \in {task} |-> 0 ], Tail(ready), done \cup {task})

Finish(task, e) ==
    FinishWith(task, e, narrative.metrics, Tail(ready), done \cup {task})

\* Variant: an error in the adapter ends the fan-out (the adapters awaited one
\* after another inside one try).
process_cognition_abort ==
    /\ Turn("cognition")
    /\ \E in \in CognitionInputs :
          LET body == cognition_body(modules, memory, narrative, in)
              e == Catch(body, "Error in cognitive_engine processing: %s")
          IN  IF body.raised
              THEN FinishWith("cognition", e, narrative.metrics, << >>, TaskSet)
              ELSE Finish("cognition", e)

process_cognition ==
    /\ Turn("cognition")
    /\ \E in \in CognitionInputs :
          Finish("cognition",
                 Catch(cognition_body(modules, memory, narrative, in),
                       "Error in cognitive_engine processing: %s"))

\* Variant: no try/except around the body.
process_learning_uncaught ==
    /\ Turn("learning")
    /\ \E in \in OkInputs :
          Finish("learning", learning_body(modules, memory, narrative, in))

process_learning ==
    /\ Turn("learning")
    /\ \E in \in OkInputs :
          Finish("learning",
                 Catch(learning_body(modules, memory, narrative, in),
                       "Error in learning_module: %s"))

process_code_update ==
    /\ Turn("code_update")
    /\ \E in \in OkInputs :
          Finish("code_update",
                 Catch(code_update_body(modules, memory, narrative, in),
                       "Error in code_generator: %s"))

process_research ==
    /\ Turn("research")
    /\ \E in \in ResearchInputs :
          Finish("research",
                 Catch(research_body(modules, memory, narrative, in),
                       "Error in research_module: %s"))

process_personality ==
    /\ Turn("personality")
    /\ \E in \in PersonalityInputs :
          Finish("personality",
                 Catch(personality_body(modules, memory, narrative, in),
                       "Error in personality_module: %s"))

\* Variant: after the fan-in run_cycle goes to sleep directly, without the
\* metrics block.
Join_skips_metrics ==
    /\ pc = "Joining"
    /\ ready = << >>
    /\ done = TaskSet
    /\ pc' = "Sleeping"
    /\ UNCHANGED << modules, narrative, cycle_counter, wait_time, ready, done,
                    memory, calls, logs, load_env, load_pre, snap, before,
                    reloads, metric_writes,
                    module_dict, gui, shell >>

\* The body of the adapter of a task, run on the orchestrator's state, and
\* the outcomes its calls may have.
adapter_body(task, in) ==
    CASE task = "cognition"   -> cognition_body(modules, memory, narrative, in)
      [] task = "learning"    -> learning_body(modules, memory, narrative, in)
      [] task = "code_update" -> code_update_body(modules, memory, narrative, in)
      [] task = "research"    -> research_body(modules, memory, narrative, in)
      [] task = "personality" -> personality_body(modules, memory, narrative, in)

adapter_inputs(task) ==
    CASE task = "cognition"   -> CognitionInputs
      [] task = "learning"    -> OkInputs
      [] task = "code_update" -> OkInputs
      [] task = "research"    -> ResearchInputs
      [] task = "personality" -> PersonalityInputs

\* The adapter at the head of the queue makes a call, of a provider
\* operation or of Memory, that never returns: the coroutine, and the thread
\* of the loop with it, stays inside the call.  Any call of the body may be
\* the one: what the body has done when the call is entered (the calls
\* before it, their records and their items in Memory) is what it has done
\* when the same call raises, and the except clause is not entered.
Stall(task) ==
    /\ Turn(task)
    /\ \E in \in adapter_inputs(task) :
          LET e == adapter_body(task, in)
              k == Len(e.calls)
          IN  /\ e.raised
              /\ k > 0
              /\ e.calls[k].ret = Str(Raise)
              /\ calls' = calls \o [ e.calls EXCEPT ![k].ret = Str(Pending) ]
              /\ logs' = logs \o e.logs
              /\ memory' = e.memory
    /\ before' = [ task |-> task, personality |-> narrative.personality,
                   memory |-> memory ]
    /\ UNCHANGED << pc, modules, narrative, cycle_counter, wait_time, ready, done,
                    load_env, load_pre, snap, reloads,
                    metric_writes,
                    module_dict, gui, shell >>

\* Every task of the gather is done: run_cycle resumes after the await.
Join ==
    /\ pc = "Joining"
    /\ ready = << >>
    /\ done = TaskSet
    /\ pc' = "Metrics"
    /\ UNCHANGED << modules, narrative, cycle_counter, wait_time, ready, done,
                    memory, calls, logs, load_env, load_pre, snap, before,
                    reloads, metric_writes,
                    module_dict, gui, shell >>

\* Variant: no floor under the damped wait.
adaptive_wait_unfloored(duration) ==
    cycle_wait - duration \div damping_den

\* Variant: the damping is taken off the previous wait (self.cycle_wait
\* adapted from cycle to cycle) instead of the fixed base.
adaptive_wait_cumulative(duration) ==
    Max(floor_wait,
        (IF cycle_counter = 0 THEN cycle_wait ELSE wait_time)
           - duration \div damping_den)

\* Variant: the damped share is added: a longer cycle is followed by a
\* longer wait.
adaptive_wait_grows(duration) ==
    Max(floor_wait, cycle_wait + duration \div damping_den)

adaptive_wait(duration) ==
    Max(floor_wait, cycle_wait - duration \div damping_den)

\* Variant: the narrative is built anew, from an empty prompt, when the
\* metrics are recorded.
run_cycle_tail_rebuilds(cycle_duration) ==
    /\ narrative' = [ init_narrative EXCEPT
                        !.backstory = "",
                        !.personality = narrative.personality,
                        !.metrics = [ k \in {"last_cycle_duration"} |-> cycle_duration ] ]
    /\ wait_time' = Max(floor_wait, cycle_wait - cycle_duration \div damping_den)
    /\ metric_writes' = metric_writes + 1
    /\ cycle_counter' = cycle_counter + 1
    /\ logs' = Append(logs, Log("INFO", "Cycle %d completed in %.3f seconds.", ""))
    /\ pc' = "Sleeping"
    /\ UNCHANGED << modules, ready, done, memory, calls, load_env, load_pre,
                    snap, before, reloads,
                    module_dict, gui, shell >>

\* Variant: the duration of the cycle before is kept under a second key.
run_cycle_tail_keeps_history(cycle_duration) ==
    /\ narrative' = [ narrative EXCEPT !.metrics =
                        [ k \in {"last_cycle_duration"} \cup
                                (IF narrative.metrics = << >> THEN {}
                                 ELSE {"previous_cycle_duration"}) |->
                            IF k = "last_cycle_duration" THEN cycle_duration
                            ELSE narrative.metrics["last_cycle_duration"] ] ]
    /\ wait_time' = adaptive_wait(cycle_duration)
    /\ metric_writes' = metric_writes + 1
    /\ cycle_counter' = cycle_counter + 1
    /\ logs' = Append(logs, Log("INFO", "Cycle %d completed in %.3f seconds.", ""))
    /\ pc' = "Sleeping"
    /\ UNCHANGED << modules, ready, done, memory, calls, load_env, load_pre,
                    snap, before, reloads, module_dict, gui, shell >>

\* run_cycle after the gather, for a measured cycle_duration: cycle_counter
\* += 1, the metrics write, the log record, wait_time, and run_cycle suspends
\* in asyncio.sleep(wait_time).
run_cycle_tail(cycle_duration) ==
    /\ narrative' = [ narrative EXCEPT !.metrics =
                        [ k \in {"last_cycle_duration"} |-> cycle_duration ] ]
    /\ wait_time' = adaptive_wait(cycle_duration)
    /\ metric_writes' = metric_writes + 1
    /\ cycle_counter' = cycle_counter + 1
    /\ logs' = Append(logs, Log("INFO", "Cycle %d completed in %.3f seconds.", ""))
    /\ pc' = "Sleeping"
    /\ UNCHANGED << modules, ready, done, memory, calls, load_env, load_pre,
                    snap, before, reloads,
                    module_dict, gui, shell >>

Metrics ==
    /\ pc = "Metrics"
    /\ \E cycle_duration \in Durations : run_cycle_tail(cycle_duration)

\* Variant: run() awaits run_cycle once and returns (no while loop).
Wake_returns ==
    /\ pc = "Sleeping"
    /\ pc' = "returned"
    /\ UNCHANGED << modules, narrative, cycle_counter, wait_time, ready, done,
                    memory, calls, logs, load_env, load_pre, snap, before,
                    reloads, metric_writes,
                    module_dict, gui, shell >>

\* The sleep ends, run_cycle returns and run() calls it again: the records
\* kept of the finished cycle are dropped.
Wake ==
    /\ pc = "Sleeping"
    /\ pc' = "Reloading"
    /\ calls' = << >>
    /\ logs' = << >>
    /\ done' = {}
    /\ load_env' = [ n \in Names |-> TRUE ]
    /\ load_pre' = modules
    /\ snap' = narrative
    /\ before' = [ task |-> "", personality |-> narrative.personality,
                   memory |-> memory ]
    /\ metric_writes' = 0
    /\ UNCHANGED << modules, narrative, cycle_counter, wait_time, ready, memory,
                    reloads,
                    module_dict, gui, shell >>

Next ==
    \/ Construct
    \/ Reload
    \/ FanOut
    \/ process_cognition
    \/ process_learning
    \/ process_code_update
    \/ process_research
    \/ process_personality
    \/ Join
    \/ Metrics
    \/ Wake

Spec == Init /\ [][Next]_vars

\* The behaviours of the orchestrator again, for the properties of
\* load_modules and of the module map.
LoadSpec == Init /\ [][Next]_vars

\* The behaviours of the orchestrator again, for the properties of what a
\* cycle leaves in Memory and in the narrative.
EffectsSpec == Init /\ [][Next]_vars

----------------------------------------------------------------------------
\* Progress: the run loop under fair scheduling.  The event loop runs a
\* task that is ready, a sleep ends, and every call made by an adapter
\* returns or raises, so a step that is possible is eventually taken.  The
\* sources load in one of four ways: all, none, all but Memory, all but the
\* cognition and research providers.

FailingSets ==
    { {}, Names, { "memory_module" }, { "cognitive_engine", "research_module" } }

ProgressEnvs == { [ n \in Names |-> n \notin F ] : F \in FailingSets }

\* In these runs the source of Memory binds its store when it is executed
\* (memories = [] at its top level, before anything in it can fail): a
\* reload of a loaded Memory empties it.
ProgressRebinds == { TRUE }

ProgressNext ==
    \/ ConstructFrom(ProgressEnvs)
    \/ ReloadFrom(ProgressEnvs, ProgressRebinds)
    \/ FanOut
    \/ process_cognition
    \/ process_learning
    \/ process_code_update
    \/ process_research
    \/ process_personality
    \/ Join
    \/ Metrics
    \/ Wake

ProgressSpec == Init /\ [][ProgressNext]_vars /\ WF_vars(ProgressNext)

----------------------------------------------------------------------------
\* The run loop when a provider call may never return.

HangNext ==
    \/ ProgressNext
    \/ \E task \in TaskSet : Stall(task)

HangSpec == Init /\ [][HangNext]_vars

----------------------------------------------------------------------------
\* One provider's module object under import and importlib.reload.  The
\* object is a dictionary of names; a source text is the bindings that
\* executing it makes: each definition bound to the text's version of it,
\* the state name bound to an empty store.

Watched == "memory_module"

MaxVersions == 2
MaxItems == 2

DefNames == { "store", "get_memory_summary" }
StateName == "memories"

source_text(D, v) == [ x \in D |-> IF x = StateName THEN 0 ELSE v ]

Sources ==
    { source_text(D, v) : D \in (SUBSET (DefNames \cup {StateName})) \ { {} },
                          v \in 1..MaxVersions }

\* Variant: the source is executed in a new, empty module object.
exec_module_fresh(names, src) == src

\* importlib.reload(module): the source is executed again in the dictionary
\* of the same module object.  A name the source binds is rebound; a name it
\* does not bind stays as it was.
exec_module(names, src) ==
    [ x \in (DOMAIN names) \cup (DOMAIN src) |->
        IF x \in DOMAIN src THEN src[x] ELSE names[x] ]

\* importlib.import_module of a name that is not in the map: a new module
\* object, or an exception and a None handle.
ImportProvider ==
    /\ Watched \notin DOMAIN modules
    /\ \E src \in Sources, ok \in BOOLEAN :
          /\ modules' = load_one(modules, Watched, ok)
          /\ module_dict' =
                IF load_succeeds(modules, Watched, ok)
                THEN [ names |-> src, source |-> src, last |-> "import" ]
                ELSE [ module_dict EXCEPT !.last = "failed" ]
    /\ UNCHANGED << pc, narrative, cycle_counter, wait_time, ready, done,
                    memory, calls, logs, load_env, load_pre, snap, before,
                    reloads, metric_writes, gui, shell >>

\* importlib.reload of the handle in the map.  A source that raises has
\* been executed up to the raise: some of its bindings are made.
ReloadProvider ==
    /\ Watched \in DOMAIN modules
    /\ \E src \in Sources, ok \in BOOLEAN :
          /\ modules' = load_one(modules, Watched, ok)
          /\ IF load_succeeds(modules, Watched, ok)
             THEN module_dict' = [ names |-> exec_module(module_dict.names, src),
                                   source |-> src, last |-> "reload" ]
             ELSE IF modules[Watched] = "module"
             THEN \E D \in SUBSET DOMAIN src :
                     module_dict' =
                        [ module_dict EXCEPT
                            !.names = exec_module(@, [ x \in D |-> src[x] ]),
                            !.last = "failed" ]
             ELSE module_dict' = [ module_dict EXCEPT !.last = "failed" ]
    /\ UNCHANGED << pc, narrative, cycle_counter, wait_time, ready, done,
                    memory, calls, logs, load_env, load_pre, snap, before,
                    reloads, metric_writes, gui, shell >>

\* A call through the handle that adds to the provider's in-memory state
\* (mem.store): store is looked up in the module object, so the call is
\* made only when the object binds it (otherwise the lookup raises
\* AttributeError and the object is as it was); the state name is bound if
\* it was not, and one item added.
UseProvider ==
    /\ Available(modules, Watched)
    /\ "store" \in DOMAIN module_dict.names
    /\ LET held == IF StateName \in DOMAIN module_dict.names
                   THEN module_dict.names[StateName] ELSE 0
       IN  /\ held < MaxItems
           /\ module_dict' =
                 [ module_dict EXCEPT
                     !.names = exec_module(@, [ x \in {StateName} |-> held + 1 ]),
                     !.last = "use" ]
    /\ UNCHANGED << orch_vars, gui, shell >>

ReloadNext ==
    \/ ImportProvider
    \/ ReloadProvider
    \/ UseProvider

ReloadSpec == Init /\ [][ReloadNext]_vars

----------------------------------------------------------------------------
\* The wait formula on its own: the end of the second cycle of a run in
\* which no provider could be loaded, for every measured duration of a whole
\* number of clock ticks.  The first cycle took one of Durations.

ClockDurations == { damping_den * k : k \in 0..MaxTicks }

NoneLoaded == [ n \in Names |-> "None" ]

WaitInit ==
    \E d0 \in Durations :
        /\ pc = "Metrics"
        /\ modules = NoneLoaded
        /\ narrative = [ init_narrative EXCEPT !.metrics =
                           [ k \in {"last_cycle_duration"} |-> d0 ] ]
        /\ cycle_counter = 1
        /\ wait_time = Max(floor_wait, cycle_wait - d0 \div damping_den)
        /\ ready = << >>
        /\ done = TaskSet
        /\ memory = << >>
        /\ calls = << >>
        /\ logs = load_modules(NoneLoaded, [ n \in Names |-> TRUE ]).logs
                    \o << Log("WARNING", "Research module not loaded.", ""),
                          Log("WARNING",
                              "Personality or memory module not loaded; skipping personality update.",
                              "") >>
        /\ load_env = [ n \in Names |-> TRUE ]
        /\ load_pre = NoneLoaded
        /\ snap = narrative
        /\ before = [ task |-> "personality", personality |-> "undefined",
                      memory |-> << >> ]
        /\ reloads = 2
        /\ metric_writes = 0
        /\ module_dict = NoObject
        /\ gui = NoGui
        /\ shell = NoShell

MetricsAnyDuration ==
    /\ pc = "Metrics"
    /\ \E cycle_duration \in ClockDurations : run_cycle_tail(cycle_duration)

WaitNext == MetricsAnyDuration

WaitSpec == WaitInit /\ [][WaitNext]_vars

----------------------------------------------------------------------------
\* The command-line shell (aurora_interactive.py).  A line of input is the
\* sequence of its words; the six modules are the global instances of the
\* file's own classes.

MaxCommands == 3
MaxLog == 5

ShellInputs ==
    { << >>, << "help" >>, << "status" >>, << "modules" >>, << "memory" >>,
      << "query", "hello" >>, << "reload" >>, << "reset" >>, << "RESET" >>,
      << "reset", "now" >>, << "run" >>, << "auto_research" >>, << "debug" >>,
      << "exit" >>, << "quit" >>, << "hello" >> }

\* str.lower on the words of the inputs.
lower_word(w) == IF w = "RESET" THEN "reset" ELSE w

lower(line) == [ i \in 1..Len(line) |-> lower_word(line[i]) ]

topics ==
    << "Quantum Computing", "Artificial Intelligence", "Climate Change",
       "Blockchain", "Genomics", "Space Exploration", "Coding", "Video Games",
       "Mathematics", "History", "Physics", "Chemistry", "Philosophy",
       "Economics", "Neuroscience", "Linguistics", "Environmental Science",
       "Astronomy" >>

\* CognitiveEngine.process_query: the query is added to the session log.
process_query(sh, text) ==
    [ sh EXCEPT !.session_log = Append(@, << "Processed query: " >> \o text) ]

\* reload_modules: the reload methods log; three of them keep a log.
reload_modules(sh) ==
    [ sh EXCEPT !.session_log = Append(@, << "Cognitive Engine reloaded." >>),
                !.learning_log = Append(@, << "Learning Module reloaded." >>),
                !.research_log = Append(@, << "Research Module reloaded." >>) ]

\* Variant: reset puts the personality back and leaves the memories.
reset_command_keeps_memory(sh) ==
    [ sh EXCEPT !.personality = "undefined" ]

\* The reset branch: personality_module.update_personality("undefined");
\* memory_module.memories.clear().
reset_command(sh) ==
    [ sh EXCEPT !.personality = "undefined", !.memories = << >> ]

\* The auto_research branch up to and including the k-th topic.
auto_research(sh, k) ==
    [ sh EXCEPT !.research_log =
        @ \o [ i \in 1..k |-> << "Research result for ", topics[i] >> ] ]

\* The if/elif chain of interactive_loop for a line that is not blank.
dispatch(sh, user_input) ==
    LET cmd == lower(user_input)
    IN  IF cmd \in { << "exit" >>, << "quit" >> } THEN [ sh EXCEPT !.pc = "exited" ]
        ELSE IF cmd \in { << "help" >>, << "status" >>, << "modules" >>,
                           << "memory" >>, << "debug" >> } THEN sh
        ELSE IF Head(cmd) = "query" /\ Len(cmd) > 1
             THEN process_query(sh, Tail(user_input))
        ELSE IF cmd = << "reload" >> THEN reload_modules(sh)
        ELSE IF cmd = << "reset" >> THEN reset_command(sh)
        ELSE IF cmd = << "run" >> THEN [ sh EXCEPT !.pc = "running" ]
        ELSE IF cmd = << "auto_research" >> THEN auto_research(sh, Len(topics))
        ELSE process_query(sh, user_input)

initialize_system ==
    /\ shell.pc = "start"
    /\ shell' = [ shell EXCEPT
                    !.pc = "prompt",
                    !.loaded = [ n \in Names |-> TRUE ],
                    !.session_log = Append(@, << "Cognitive Engine loaded (simulated)." >>),
                    !.learning_log = Append(@, << "Learning Module loaded." >>),
                    !.research_log = Append(@, << "Research Module loaded." >>),
                    !.personality = "Aurora feels curious today.",
                    !.memories = Append(@, << "System initialized at " >>) ]
    /\ UNCHANGED << orch_vars, module_dict, gui >>

\* One turn of the while loop: a line is read and dispatched; a blank line
\* is skipped.
interactive_loop ==
    /\ shell.pc = "prompt"
    /\ shell.count < MaxCommands
    /\ \E user_input \in ShellInputs :
          shell' = IF user_input = << >> THEN shell
                   ELSE dispatch([ shell EXCEPT !.last = lower(user_input),
                                                !.count = @ + 1 ],
                                 user_input)
    /\ UNCHANGED << orch_vars, module_dict, gui >>

\* One turn of the loop of the run branch.
continuous_run ==
    /\ shell.pc = "running"
    /\ Len(shell.session_log) < MaxLog
    /\ shell' = process_query(shell, << "Automatic cycle query." >>)
    /\ UNCHANGED << orch_vars, module_dict, gui >>

\* Ctrl+C: in the run branch it ends the run mode; at the prompt it ends
\* the session.
keyboard_interrupt ==
    /\ shell.pc \in { "running", "prompt" }
    /\ shell' = [ shell EXCEPT
                    !.pc = IF shell.pc = "running" THEN "prompt" ELSE "exited",
                    !.last = << "^C" >> ]
    /\ UNCHANGED << orch_vars, module_dict, gui >>

\* Ctrl+C in the auto_research branch, after the k-th topic: the session
\* ends.
auto_research_interrupted ==
    /\ shell.pc = "prompt"
    /\ shell.count < MaxCommands
    /\ \E k \in 1..Len(topics) :
          shell' = [ auto_research(shell, k) EXCEPT
                       !.pc = "exited", !.last = << "^C" >>, !.count = @ + 1 ]
    /\ UNCHANGED << orch_vars, module_dict, gui >>

ShellNext ==
    \/ initialize_system
    \/ interactive_loop
    \/ continuous_run
    \/ keyboard_interrupt
    \/ auto_research_interrupted

ShellSpec == Init /\ [][ShellNext]_vars

----------------------------------------------------------------------------
\* The GUI front end (aurora_gui.py) run as a program.  The first statement
\* of its main block is logger.info(...); the file binds no name logger
\* (it imports logging and nothing more), so the statement raises NameError
\* and the program ends: no orchestrator, event loop, thread, window or
\* response queue is created.
gui_main ==
    /\ gui.pc = "off"
    /\ gui' = [ gui EXCEPT !.pc = "NameError" ]
    /\ UNCHANGED << orch_vars, module_dict, shell >>

\* The front ends a user may start, each a process of its own: the
\* interactive shell and the GUI.  A program that is started runs.
FrontEndNext ==
    \/ ShellNext
    \/ gui_main

FrontEndSpec == Init /\ [][FrontEndNext]_vars /\ WF_vars(gui_main)

----------------------------------------------------------------------------
\* Vocabulary of the properties.

Range(q) == { q[i] : i \in 1..Len(q) }

\* A call of op was made by the adapter task in this cycle.
Called(task, op) ==
    \E i \in 1..Len(calls) : calls[i].task = task /\ calls[i].op = op

\* A call made by the adapter task in this cycle raised.
RaisedIn(task) ==
    \E i \in 1..Len(calls) : calls[i].task = task /\ calls[i].ret = Str(Raise)

CallRaised(task, op) ==
    \E i \in 1..Len(calls) :
        calls[i].task = task /\ calls[i].op = op /\ calls[i].ret = Str(Raise)

\* The capability provider of an adapter and the operation it calls on it.
provider(task) ==
    CASE task = "cognition"   -> "cognitive_engine"
      [] task = "learning"    -> "learning_module"
      [] task = "code_update" -> "code_generator"
      [] task = "research"    -> "research_module"
      [] task = "personality" -> "personality_module"

provider_op(task) ==
    CASE task = "cognition"   -> "process"
      [] task = "learning"    -> "learn"
      [] task = "code_update" -> "dynamic_update"
      [] task = "research"    -> "generate_topic"
      [] task = "personality" -> "generate_personality"

\* The condition under which the adapter enters its provider branch.
GateOpen(task) ==
    /\ Available(modules, provider(task))
    /\ task = "personality" => Available(modules, "memory_module")

error_msg(task) ==
    CASE task = "cognition"   -> "Error in cognitive_engine processing: %s"
      [] task = "learning"    -> "Error in learning_module: %s"
      [] task = "code_update" -> "Error in code_generator: %s"
      [] task = "research"    -> "Error in research_module: %s"
      [] task = "personality" -> "Error in personality_module: %s"

\* Every provider is in the map and available.
AllAvailable == \A n \in Names : Available(modules, n)

\* No call of this cycle raised and no adapter or load ended in an except
\* clause.
NoFailure ==
    /\ \A i \in 1..Len(calls) : calls[i].ret # Str(Raise)
    /\ \A i \in 1..Len(logs) : logs[i].level # "ERROR"

\* The values returned by the calls of op made in this cycle.
Returned(op) == { calls[i].ret : i \in { j \in 1..Len(calls) : calls[j].op = op } }

\* The adapter that ran last ended in its except clause.
LastAdapterFailed ==
    /\ pc = "Joining"
    /\ before.task \in TaskSet
    /\ logs # << >>
    /\ logs[Len(logs)] = Log("ERROR", error_msg(before.task), "")

\* A load_modules call has just returned: load_pre and load_env are its
\* starting map and its input.
LoadJustDone == pc = "Running" \/ (pc = "Reloading" /\ cycle_counter = 0)

InFanOut == pc \in { "Running", "Joining", "Metrics" }

----------------------------------------------------------------------------
\* C1  No escape: whatever providers failed to load and whatever calls
\* raise, no error leaves a task adapter, load_modules, run_cycle or run: the
\* run loop is always at one of its own positions, never ended by an error.
C1_NoEscape ==
    pc \in { "init", "Reloading", "Running", "Joining", "Metrics", "Sleeping" }

\* A second cycle completes although a provider failed to load and calls
\* raised in it.
C1_Witness ==
    /\ pc = "Sleeping"
    /\ cycle_counter = 2
    /\ \E n \in Names : modules[n] = "None"
    /\ RaisedIn("learning")
    /\ RaisedIn("research")

\* C2 (as stated)  When a call raises inside one adapter, every other
\* adapter whose provider is available (and in which nothing raises) makes
\* its provider call in that cycle.
C2_Original ==
    \A t \in done : RaisedIn(t) =>
        \A u \in done \ {t} :
            (Available(modules, provider(u)) /\ ~RaisedIn(u))
                => Called(u, provider_op(u))

\* C2 (amended)  When a call raises inside one adapter, no other adapter is
\* dropped from the cycle, and each other adapter that has run made its
\* provider call if its gate is open (its provider available and, for the
\* personality adapter, Memory available too) unless its own Memory summary
\* call raised; with all five finished the scheduler can go on to Metrics.
C2_SiblingIsolation ==
    /\ pc # "crashed"
    /\ pc = "Joining" => done \cup Range(ready) = TaskSet
    /\ pc \in { "Metrics", "Sleeping" } => done = TaskSet
    /\ LET raisers == { t \in done : RaisedIn(t) }
       IN  \A u \in done :
              (raisers \ {u} # {} /\ GateOpen(u)) =>
                  \/ Called(u, provider_op(u))
                  \/ CallRaised(u, "get_memory_summary")

\* process raises in the cognition adapter and the four others make their
\* provider calls, and the cycle is at its Metrics step.
C2_Witness ==
    /\ pc = "Metrics"
    /\ CallRaised("cognition", "process")
    /\ Called("learning", "learn")
    /\ Called("code_update", "dynamic_update")
    /\ Called("research", "generate_topic")
    /\ Called("personality", "generate_personality")

\* C3  Fan-in barrier: in a cycle the metrics map is written once, by the
\* scheduler, after all five adapters have finished; it is not written while
\* the fan-out is under way.
C3_MetricsAfterFanIn ==
    /\ metric_writes <= 1
    /\ metric_writes = 1 => pc = "Sleeping" /\ done = TaskSet /\ ready = << >>
    /\ pc = "Sleeping" => metric_writes = 1
    /\ InFanOut => narrative.metrics = snap.metrics

\* The metrics of a second cycle are written, after a cycle in which an
\* adapter failed.
C3_Witness ==
    /\ pc = "Sleeping"
    /\ cycle_counter = 2
    /\ metric_writes = 1
    /\ RaisedIn("cognition")
    /\ "last_cycle_duration" \in DOMAIN snap.metrics

\* C4  Reload before run: in every cycle load_modules has returned before
\* an adapter takes a step (cycle k, counted from 0, runs after k + 1 reloads),
\* and every call an adapter makes is on a handle of that reload.
C4_ReloadBeforeRun ==
    /\ InFanOut => reloads = cycle_counter + 1
    /\ pc \in { "Reloading", "Sleeping" } => reloads = cycle_counter
    /\ pc \in { "Reloading", "Running" } =>
          done = {} /\ calls = << >> /\ ready = << >>
    /\ \A i \in 1..Len(calls) :
          /\ calls[i].op = provider_op(calls[i].task) => GateOpen(calls[i].task)
          /\ calls[i].op \in { "store", "get_memory_summary" } =>
                Available(modules, "memory_module")

\* In the second cycle an adapter has run on the handles of the second
\* reload, which differ from those of the first.
C4_Witness ==
    /\ pc = "Joining"
    /\ cycle_counter = 1
    /\ reloads = 2
    /\ Called("cognition", "process")
    /\ modules["personality_module"] = "None"
    /\ snap.personality = "curious"

\* C5 (as stated)  A handle becomes available again at the next load_modules
\* call at which its provider loads successfully.
C5_RecoveryAfterFailedLoad ==
    LoadJustDone =>
        \A n \in Names : load_env[n] => Available(modules, n)

\* C6  Registry totality: after every load_modules call the module map has
\* an entry for each of the six names, a loaded provider or None, and no
\* entry the map had before the call is gone.
C6_RegistryTotal ==
    /\ pc # "init" =>
          /\ DOMAIN modules = Names
          /\ \A n \in Names : modules[n] \in { "module", "None" }
    /\ DOMAIN load_pre \subseteq DOMAIN modules

\* A reload has just marked a loaded provider unavailable and kept another.
C6_Witness ==
    /\ pc = "Running"
    /\ cycle_counter = 1
    /\ \E n \in Names : load_pre[n] = "module" /\ modules[n] = "None"
    /\ \E n \in Names : modules[n] = "module"

\* The records of the load_modules call that has just returned: in the
\* constructor they follow the record of init_narrative.
LoadRecords == SelectSeq(logs, LAMBDA r : r # narrative_log)

\* C7  Per-name load isolation: when the load of one name fails, that name
\* is marked unavailable, every other name gets the handle it would have got
\* had the failing name loaded, and every name of the list is attempted (it
\* has its log record, in list order).
C7_PerNameIsolation ==
    LoadJustDone =>
        /\ LET rec == LoadRecords
           IN  /\ Len(rec) = Len(module_names)
               /\ \A i \in 1..Len(module_names) : rec[i].arg = module_names[i]
        /\ DOMAIN modules = Names
        /\ \A n \in Names : ~load_env[n] =>
              /\ modules[n] = "None"
              /\ LET had_it_loaded ==
                         load_modules(load_pre, [ load_env EXCEPT ![n] = TRUE ]).map
                 IN  \A k \in Names \ {n} : modules[k] = had_it_loaded[k]

\* The reload of a loaded provider fails and a name after it in the list is
\* reloaded successfully.
C7_Witness ==
    /\ pc = "Running"
    /\ load_pre["learning_module"] = "module"
    /\ ~load_env["learning_module"]
    /\ modules["learning_module"] = "None"
    /\ modules["research_module"] = "module"
    /\ logs[5] = Log("INFO", "Reloaded module: %s", "research_module")

\* C8  Gated personality update: in a cycle in which the personality
\* provider or Memory is unavailable, generate_personality is not called and
\* the personality is the one the cycle began with.
C8_GatedPersonality ==
    ( /\ InFanOut \/ pc = "Sleeping"
      /\ \/ ~Available(modules, "personality_module")
         \/ ~Available(modules, "memory_module") )
    => /\ narrative.personality = snap.personality
       /\ ~Called("personality", "generate_personality")

\* The personality adapter has run with its provider loaded and Memory
\* unavailable.
C8_Witness ==
    /\ pc = "Sleeping"
    /\ "personality" \in done
    /\ Available(modules, "personality_module")
    /\ ~Available(modules, "memory_module")
    /\ narrative.personality = "curious"

\* C9  Research skip: in a cycle in which the research provider is
\* unavailable the research adapter makes no call at all (no generate_topic,
\* research, analyze_research, Memory summary or store) and leaves the Memory
\* items as they were.
C9_ResearchSkip ==
    ~Available(modules, "research_module") =>
        /\ \A i \in 1..Len(calls) : calls[i].task # "research"
        /\ before.task = "research" => memory = before.memory

\* The research adapter has run with its provider unavailable and Memory
\* available.
C9_Witness ==
    /\ pc = "Joining"
    /\ before.task = "research"
    /\ ~Available(modules, "research_module")
    /\ Available(modules, "memory_module")
    /\ memory # << >>

\* C10 (as stated)  An adapter in which a call raised has no effect: the
\* personality and the Memory items are what they were before it started.
C10_Original ==
    LastAdapterFailed =>
        /\ narrative.personality = before.personality
        /\ memory = before.memory

\* C10 (amended)  An adapter in which a call raised leaves the personality
\* as it was, and leaves the Memory items as they were except that the
\* research adapter keeps the research result it stored before the failure.
C10_ErrorKeepsWhatWasStored ==
    LastAdapterFailed =>
        /\ narrative.personality = before.personality
        /\ \/ memory = before.memory
           \/ /\ before.task = "research"
              /\ \E r \in Results : memory = Append(before.memory, Str(r))
              /\ Called("research", "store")

\* The research adapter failed after storing its result, and the
\* personality adapter failed at generate_personality.
C10_Witness ==
    /\ LastAdapterFailed
    /\ before.task = "personality"
    /\ CallRaised("personality", "generate_personality")
    /\ CallRaised("research", "analyze_research")
    /\ Len(memory) > 0
    /\ memory[Len(memory)] = Str("result")

----------------------------------------------------------------------------
\* C11  Snapshot isolation of the Narrative: every adapter of a cycle is
\* given the narrative as it was when the cycle began: each call that takes
\* the narrative carries the personality of the cycle's start, every adapter
\* starts with that personality in the narrative, and until the personality
\* adapter has run the narrative is the one of the cycle's start.
C11_SnapshotIsolation ==
    /\ \A i \in 1..Len(calls) :
          calls[i].op \in { "process", "learn", "generate_personality" }
             => SubSeq(calls[i].arg, 1, 2) = NarrativeArg(snap)
    /\ before.task \in TaskSet => before.personality = snap.personality
    /\ (pc = "Joining" /\ "personality" \notin done) => narrative = snap

\* A cycle in which cognition, learning and personality were all given the
\* narrative and the personality adapter changed the personality.
C11_Witness ==
    /\ pc = "Metrics"
    /\ narrative.personality # snap.personality
    /\ Called("cognition", "process")
    /\ Called("learning", "learn")
    /\ Called("personality", "generate_personality")

----------------------------------------------------------------------------
\* C12  Immutability: identity, backstory and mission of the narrative have
\* at every moment the values given at construction, whatever providers
\* loaded and whatever calls raised.
C12_Immutable ==
    /\ narrative.identity = "Aurora"
    /\ narrative.backstory = "prompt"
    /\ narrative.mission = "Learn and evolve across all domains."

\* The last cycle has ended, an adapter failed in it, and personality and
\* metrics have been written.
C12_Witness ==
    /\ pc = "Sleeping"
    /\ cycle_counter = MaxCycles
    /\ narrative.personality # "undefined"
    /\ narrative.metrics # << >>
    /\ \E i \in 1..Len(logs) : logs[i].level = "ERROR"
    /\ narrative.backstory = init_narrative.backstory

----------------------------------------------------------------------------
\* C13  Single writer of personality: the personality starts as "undefined"
\* and every step that changes it is the step of the personality adapter,
\* which runs once per cycle (it is not done before the step and is done
\* after it).
C13_SingleWriter ==
    /\ narrative.personality = "undefined"
    /\ [][ narrative'.personality # narrative.personality
             => /\ Turn("personality")
                /\ "personality" \notin done
                /\ "personality" \in done'
                /\ Called("personality", "generate_personality")' ]_vars

\* The personality adapter has just changed the personality.
C13_Witness ==
    /\ before.task = "personality"
    /\ narrative.personality # before.personality
    /\ narrative.personality \in Personalities

----------------------------------------------------------------------------
\* C14  Adaptive floor: for every measured cycle duration >= 0 the wait
\* computed by run_cycle is at least 500 ms, so the loop always suspends
\* before the next cycle.
C14_AdaptiveFloor ==
    (pc = "Sleeping" /\ narrative.metrics["last_cycle_duration"] >= 0)
       => wait_time >= 500

\* A cycle so long that the damped wait is under the floor.
C14_Witness ==
    /\ pc = "Sleeping"
    /\ narrative.metrics["last_cycle_duration"] > 5000
    /\ wait_time = 500

----------------------------------------------------------------------------
\* C15  Wait formula: the wait computed after a cycle is
\* max(500, 1000 - duration / 10) ms, a function of the duration of the
\* cycle just finished alone, whatever the cycle before took; a cycle of
\* 200 ms gives 980 ms and a cycle of 3000 ms gives 700 ms.
C15_WaitFormula ==
    pc = "Sleeping" =>
        LET d == narrative.metrics["last_cycle_duration"]
        IN  /\ 10 * wait_time = Max(10 * 500, 10 * 1000 - d)
            /\ d = 200 => wait_time = 980
            /\ d = 3000 => wait_time = 700

\* Two consecutive cycles of 200 ms and 3000 ms: the second wait is 700 ms.
C15_Witness ==
    /\ pc = "Sleeping"
    /\ cycle_counter = 2
    /\ snap.metrics = [ k \in {"last_cycle_duration"} |-> 200 ]
    /\ narrative.metrics = [ k \in {"last_cycle_duration"} |-> 3000 ]
    /\ wait_time = 700

----------------------------------------------------------------------------
\* C16  Idempotent reload: when load_modules has just returned, calling it
\* again with the providers' sources unchanged gives the same map: every
\* name that is available stays available and every name that is unavailable
\* stays unavailable.
C16_IdempotentReload ==
    LoadJustDone =>
        LET again == load_modules(modules, load_env).map
        IN  /\ DOMAIN again = DOMAIN modules
            /\ \A n \in Names : Available(again, n) <=> Available(modules, n)
            /\ again = modules

\* run_cycle's load_modules has returned the map it started from, with one
\* provider available and another one not.
C16_Witness ==
    /\ pc = "Running"
    /\ load_pre = modules
    /\ Available(modules, "cognitive_engine")
    /\ ~Available(modules, "research_module")
    /\ load_env["cognitive_engine"]
    /\ ~load_env["research_module"]

----------------------------------------------------------------------------
\* C17  Scenario A: after the first cycle, run with all six providers
\* available and every call returning, the metrics hold a last_cycle_duration
\* >= 0, the personality is the value generate_personality returned, and
\* Memory holds the thought process returned, the result research returned
\* and the analysis analyze_research returned behind the tag "GPT Analysis: ".
C17_ScenarioA ==
    (pc = "Sleeping" /\ cycle_counter = 1 /\ AllAvailable /\ NoFailure) =>
        /\ DOMAIN narrative.metrics = { "last_cycle_duration" }
        /\ narrative.metrics["last_cycle_duration"] >= 0
        /\ Returned("generate_personality") = { Str(narrative.personality) }
        /\ Returned("process") # {}
        /\ Returned("research") # {}
        /\ Returned("analyze_research") # {}
        /\ \A t \in Returned("process") : t \in Range(memory)
        /\ \A r \in Returned("research") : r \in Range(memory)
        /\ \A a \in Returned("analyze_research") :
              (Str(analysis_tag) \o a) \in Range(memory)

\* The first cycle has ended with every provider available and no failure.
C17_Witness ==
    /\ pc = "Sleeping"
    /\ cycle_counter = 1
    /\ AllAvailable
    /\ NoFailure
    /\ narrative.personality \in Personalities
    /\ Len(memory) = 3

----------------------------------------------------------------------------
\* C18  Scenario B: in a cycle in which the cognition provider's process
\* call raised, the cognition adapter makes no store call and leaves Memory
\* as it was, the run loop is not ended by the error and can always take its
\* next step, and when the cycle ends the metrics have been written once and
\* the cycle index has been incremented.
C18_ScenarioB ==
    CallRaised("cognition", "process") =>
        /\ ~Called("cognition", "store")
        /\ before.task = "cognition" => memory = before.memory
        /\ pc \in { "Joining", "Metrics", "Sleeping" }
        /\ pc \in { "Joining", "Metrics" } => (cycle_counter = reloads - 1 /\ ENABLED Next)
        /\ pc = "Sleeping" =>
              /\ metric_writes = 1
              /\ "last_cycle_duration" \in DOMAIN narrative.metrics
              /\ cycle_counter = reloads

\* A cycle in which process raised, with Memory available, has recorded its
\* metrics.
C18_Witness ==
    /\ pc = "Sleeping"
    /\ CallRaised("cognition", "process")
    /\ Available(modules, "memory_module")
    /\ metric_writes = 1
    /\ cycle_counter = reloads

----------------------------------------------------------------------------
\* The adapters of this cycle have made no Memory call, and research was
\* given the "no summary" sentinel as its context.
SkipsMemory ==
    /\ \A i \in 1..Len(calls) :
          /\ calls[i].op \notin { "store", "get_memory_summary" }
          /\ calls[i].op = "generate_topic" => calls[i].arg = Str(no_summary)
    /\ pc = "Sleeping" => "last_cycle_duration" \in DOMAIN narrative.metrics

\* The warning records emitted since the cycle began.
Warnings == { i \in 1..Len(logs) : logs[i].level = "WARNING" }

\* C19  Scenario C: when the fan-in of a cycle run without the Memory
\* provider (and with the five other providers) is reached, the cognition, research and personality adapters
\* have each emitted a warning record (three at least), no Memory call has
\* been made, research was given the "no summary" sentinel, and the cycle
\* records its metrics.
C19_ScenarioC ==
    (/\ pc \in { "Metrics", "Sleeping" }
     /\ ~Available(modules, "memory_module")
     /\ \A n \in Names \ { "memory_module" } : Available(modules, n)) =>
        /\ SkipsMemory
        /\ Cardinality(Warnings) >= 3

----------------------------------------------------------------------------
\* The changes of position of the run loop.
PhaseSteps ==
    { << "init", "Reloading" >>, << "Reloading", "Running" >>,
      << "Running", "Joining" >>, << "Joining", "Metrics" >>,
      << "Metrics", "Sleeping" >>, << "Sleeping", "Reloading" >> }

\* C20  Scheduler phase order: every change of phase is the next one in
\* the order Reloading, Running, Joining, Metrics, Sleeping, Reloading; the
\* only steps that stay in a phase are the five adapter runs inside Joining,
\* each finishing one more task; a step from Sleeping always leads to
\* Reloading; and no state of the loop is terminal: outside Reloading a next
\* step is always possible, and in Reloading load_modules, which is total, is
\* the next step (the model alone stops there, at its cycle bound).
C20_PhaseOrder ==
    /\ [](\/ pc = "Reloading"
          \/ ENABLED (Construct \/ FanOut \/ process_cognition \/ process_learning
                        \/ process_code_update \/ process_research
                        \/ process_personality \/ Join \/ Metrics \/ Wake))
    /\ [][ /\ pc' # pc => << pc, pc' >> \in PhaseSteps
           /\ pc' = pc => (pc = "Joining" /\ done' # done /\ done \subseteq done')
           /\ pc = "Sleeping" => pc' = "Reloading"
           /\ pc = "Metrics" => cycle_counter' = cycle_counter + 1
           /\ pc' = "Metrics" => done' = TaskSet ]_vars

\* The second cycle has begun: the loop went through every phase once and
\* started again.
C20_Witness ==
    /\ pc = "Running"
    /\ cycle_counter = 1
    /\ reloads = 2
    /\ narrative.metrics # << >>

----------------------------------------------------------------------------
\* C21  Progress under failures: with every call returning or raising and
\* fair scheduling, every cycle that has started eventually records its
\* metrics (once, with the cycle index incremented), after every cycle but
\* the last of the model the next one eventually starts, and the cycle index
\* eventually reaches the bound of the model, whatever loads failed and
\* whatever calls raised.
C21_Progress ==
    /\ (pc = "Running")
          ~> (pc = "Sleeping" /\ cycle_counter = reloads /\ metric_writes = 1)
    /\ (pc = "Sleeping" /\ cycle_counter < MaxCycles)
          ~> (pc = "Running" /\ reloads = cycle_counter + 1)
    /\ <>(cycle_counter = MaxCycles)

\* The last cycle of the model has recorded its metrics although a provider
\* failed to load and an adapter ended in its except clause.
C21_Witness ==
    /\ pc = "Sleeping"
    /\ cycle_counter = MaxCycles
    /\ metric_writes = 1
    /\ \E n \in Names : ~Available(modules, n)
    /\ \E t \in TaskSet : RaisedIn(t)

----------------------------------------------------------------------------
\* C22  No cycle-level timeout: while a provider call made by an adapter has
\* not returned, the cycle is in its fan-out with its metrics unwritten and
\* the cycle index not incremented, and no step is ever taken from such a
\* state: the Metrics phase is not reached, metrics and cycle index stay as
\* they are, and no later cycle starts.
C22_NoCycleTimeout ==
    /\ [](Stalled =>
            /\ pc = "Joining"
            /\ ready # << >>
            /\ metric_writes = 0
            /\ cycle_counter = reloads - 1)
    /\ [][ ~Stalled ]_vars

\* A call of the research adapter has not returned in the second cycle,
\* after the cognition adapter made its call.
C22_Witness ==
    /\ Stalled
    /\ before.task = "research"
    /\ Called("cognition", "process")
    /\ cycle_counter = 1
    /\ "last_cycle_duration" \in DOMAIN narrative.metrics

----------------------------------------------------------------------------
\* The adapters whose capability provider is unavailable in this cycle.
Unprovided == { t \in TaskSet : ~Available(modules, provider(t)) }

\* C23  Provider unavailable means warn and no-op: when the five adapters
\* of a cycle have run, each adapter whose provider is unavailable has emitted
\* a warning record (so there are at least as many warnings as such
\* adapters) and has made no call, and if the adapter that ran last is one
\* of them it left personality and Memory as they were.
C23_UnavailableWarns ==
    pc = "Metrics" =>
        /\ \A t \in Unprovided :
              \A i \in 1..Len(calls) : calls[i].task # t
        /\ before.task \in Unprovided =>
              (narrative.personality = before.personality /\ memory = before.memory)
        /\ Cardinality(Warnings) >= Cardinality(Unprovided)

----------------------------------------------------------------------------
\* C24  Cycle index: the cycle counter starts at 0; every step that changes
\* it is the step of the Metrics phase and adds exactly 1; every step of the
\* Metrics phase changes it; and it equals the number of cycles whose
\* metrics block has run: the number of cycles started, less the one under
\* way until its metrics block has run.
C24_CycleIndex ==
    /\ cycle_counter = 0
    /\ [](cycle_counter = IF pc \in { "Running", "Joining", "Metrics" }
                           THEN reloads - 1 ELSE reloads)
    /\ [][ /\ cycle_counter' # cycle_counter =>
                (pc = "Metrics" /\ pc' = "Sleeping"
                   /\ cycle_counter' = cycle_counter + 1)
           /\ pc = "Metrics" => cycle_counter' = cycle_counter + 1
           /\ cycle_counter' >= cycle_counter ]_vars

\* The last cycle of the model has been counted.
C24_Witness ==
    /\ pc = "Sleeping"
    /\ cycle_counter = MaxCycles
    /\ reloads = MaxCycles
    /\ done = TaskSet

----------------------------------------------------------------------------
\* The calls made by the research adapter in this cycle, in order.
research_calls == SelectSeq(calls, LAMBDA c : c.task = "research")

\* The research adapter has just run with its provider available, every
\* call returned and the adapter did not end in its except clause.
ResearchSucceeded ==
    /\ pc = "Joining"
    /\ before.task = "research"
    /\ Available(modules, "research_module")
    /\ ~RaisedIn("research")
    /\ \A i \in 1..Len(logs) : logs[i].msg # error_msg("research")

\* C25  Research pipeline order and data flow: when the research adapter
\* has run with its provider available and every call succeeding, its calls
\* are, in this order, the memory summary (Memory available), generate_topic
\* with the summary or the sentinel, research with the topic returned,
\* store of the result (Memory available), analyze_research with the result
\* returned, store of "GPT Analysis: " + analysis (Memory available).
C25_ResearchPipeline ==
    ResearchSucceeded =>
        LET rc == research_calls
            hasmem == Available(modules, "memory_module")
            ops == [ i \in 1..Len(rc) |-> rc[i].op ]
        IN  IF hasmem
            THEN /\ ops = << "get_memory_summary", "generate_topic", "research",
                             "store", "analyze_research", "store" >>
                 /\ rc[2].arg = memory_summary(before.memory)
                 /\ rc[3].arg = rc[2].ret
                 /\ rc[4].arg = rc[3].ret
                 /\ rc[5].arg = rc[3].ret
                 /\ rc[6].arg = Str("GPT Analysis: ") \o rc[5].ret
            ELSE /\ ops = << "generate_topic", "research", "analyze_research" >>
                 /\ rc[1].arg = Str("No memory summary available.")
                 /\ rc[2].arg = rc[1].ret
                 /\ rc[3].arg = rc[2].ret

\* The pipeline has run to its end with Memory available and holding the
\* thought of this cycle.
C25_Witness ==
    /\ ResearchSucceeded
    /\ Available(modules, "memory_module")
    /\ Len(research_calls) = 6
    /\ before.memory # << >>

----------------------------------------------------------------------------
\* The cognition adapter has just run with its provider available and
\* process returned a thought.
ThoughtProduced ==
    /\ pc = "Joining"
    /\ before.task = "cognition"
    /\ Available(modules, "cognitive_engine")
    /\ Called("cognition", "process")
    /\ ~CallRaised("cognition", "process")

\* The thought returned by process is the item last added to Memory.
ThoughtStored ==
    /\ Len(memory) = Len(before.memory) + 1
    /\ { memory[Len(memory)] } = Returned("process")

ThoughtLogged ==
    \E i \in 1..Len(logs) : logs[i].msg = "Processed thought: %s"

\* C26  Cognition task: when the cognition provider is available and
\* process returns a thought, the thought is stored in Memory if and only if
\* the Memory provider is available, and the thought is logged, whether or
\* not Memory is available and whether or not the store succeeds.
C26_CognitionStoresAndLogs ==
    ThoughtProduced =>
        /\ ThoughtStored <=> Available(modules, "memory_module")
        /\ ThoughtLogged

----------------------------------------------------------------------------
\* C27  One load record per name: when a load_modules call has returned,
\* the records it emitted are six, the i-th one names the i-th capability of
\* the name list, and it says "Error loading" exactly when the handle is now
\* None, "Reloaded" when the name was in the map and the reload succeeded,
\* "Loaded" when the name was not in the map and the import succeeded.
C27_OneLoadRecordPerName ==
    LoadJustDone =>
        LET rec == LoadRecords
        IN  /\ Len(rec) = Len(module_names)
            /\ logs \in { rec, << narrative_log >> \o rec }
            /\ \A i \in 1..Len(module_names) :
                  LET name == module_names[i]
                  IN  /\ rec[i].arg = name
                      /\ rec[i].msg =
                            IF ~Available(modules, name) THEN "Error loading module %s: %s"
                            ELSE IF name \in DOMAIN load_pre THEN "Reloaded module: %s"
                            ELSE "Loaded module: %s"
                      /\ rec[i].level =
                            IF Available(modules, name) THEN "INFO" ELSE "ERROR"

\* A reload has returned with the three outcomes side by side: the first
\* load of the construction is over, one provider has been reloaded and
\* another one has failed.
C27_Witness ==
    /\ pc = "Running"
    /\ \E a, b \in Names :
          /\ Available(modules, a) /\ a \in DOMAIN load_pre
          /\ ~Available(modules, b)
    /\ Len(logs) = 6

----------------------------------------------------------------------------
\* C28  Reload replaces the provider: after a successful reload of a
\* capability, the names visible through the handle in the module map are
\* the ones the source just executed binds, with its bindings: no state
\* accumulated by the previous instance and no name that only the previous
\* definition bound.
C28_ReloadReplaces ==
    (Available(modules, Watched) /\ module_dict.last = "reload") =>
        module_dict.names = module_dict.source

----------------------------------------------------------------------------
\* The messages whose response has been put on response_queue.
Responded == { gui.put[i] : i \in 1..Len(gui.put) }

\* C29  Front-end query path independent of the scheduler: the GUI, once
\* started, comes to take messages, and every message submitted through it
\* eventually places a response on the response queue, and never more than
\* one, whatever the state of the cycle scheduler.
C29_QueryIndependent ==
    /\ (gui.pc # "off") ~> (gui.pc = "mainloop")
    /\ [](\A i, j \in 1..Len(gui.put) : gui.put[i] = gui.put[j] => i = j)
    /\ []<>(Responded = 1..gui.sent)

----------------------------------------------------------------------------
\* The order in which the adapters are to run, and an adapter's place in it.
run_order == << "cognition", "learning", "code_update", "research", "personality" >>

place(task) == CHOOSE i \in 1..Len(run_order) : run_order[i] = task

\* The store calls made by an adapter in this cycle that returned.
Stores(task) ==
    { i \in 1..Len(calls) : /\ calls[i].task = task
                            /\ calls[i].op = "store"
                            /\ calls[i].ret # Str(Raise) }

\* The last k items of a sequence.
LastItems(q, k) == SubSeq(q, Len(q) - k + 1, Len(q))

\* C30  Adapters do not interleave and Memory writes are visible within
\* the cycle: the adapters finish one after another in the order cognition,
\* learning, code-update, research, personality, and the calls of one are
\* never among the calls of another; when research begins, Memory ends with
\* the thought that cognition stored in this cycle, and the summary given to
\* generate_topic is taken of that Memory; when personality begins, Memory
\* ends with the research result and the tagged analysis stored in this
\* cycle, and the summary given to generate_personality is taken of that
\* Memory.
C30_NoInterleaving ==
    /\ pc = "Joining" =>
          \E k \in 0..Len(run_order) :
              /\ done = { run_order[i] : i \in 1..k }
              /\ ready = SubSeq(run_order, k + 1, Len(run_order))
    /\ \A i \in 1..(Len(calls) - 1) :
          place(calls[i].task) <= place(calls[i + 1].task)
    /\ (before.task = "research" /\ Stores("cognition") # {}) =>
          /\ \A i \in Stores("cognition") :
                LastItems(before.memory, 1) = << calls[i].arg >>
          /\ \A i \in 1..Len(calls) :
                calls[i].op = "generate_topic" =>
                    calls[i].arg = memory_summary(before.memory)
    /\ (before.task = "personality" /\ Cardinality(Stores("research")) = 2) =>
          /\ LastItems(before.memory, 2) \in
                { << r, Str("GPT Analysis: ") \o a >> :
                     r \in Returned("research"), a \in Returned("analyze_research") }
          /\ \A i \in 1..Len(calls) :
                calls[i].op = "generate_personality" =>
                    calls[i].arg = NarrativeArg(snap) \o memory_summary(before.memory)

\* A cycle in which cognition stored its thought, research read the summary
\* and stored its result and analysis, and personality read the summary of
\* the three items.
C30_Witness ==
    /\ before.task = "personality"
    /\ Stores("cognition") # {}
    /\ Cardinality(Stores("research")) = 2
    /\ Called("research", "get_memory_summary")
    /\ Called("personality", "generate_personality")
    /\ Len(before.memory) = 3

----------------------------------------------------------------------------
\* The operations of the research pipeline in the order of the code, with
\* and without Memory.
pipeline_ops(hasmem) ==
    IF hasmem
    THEN << "get_memory_summary", "generate_topic", "research", "store",
            "analyze_research", "store" >>
    ELSE << "generate_topic", "research", "analyze_research" >>

\* The research adapter has just run and one of its calls raised.
ResearchFailed == before.task = "research" /\ RaisedIn("research")

\* C31  Research pipeline aborts at the first failing step: when a call of
\* the research adapter raises, it is the last call the adapter makes in the
\* cycle (the calls made are the steps of the pipeline up to the failing
\* one, the later ones are not called), the adapter ends in its except
\* clause, and a research result stored before the failure is still the last
\* item of Memory.
C31_PipelineAborts ==
    ResearchFailed =>
        LET rc == research_calls
            ops == pipeline_ops(Available(modules, "memory_module"))
        IN  /\ Len(rc) <= Len(ops)
            /\ \A i \in 1..Len(rc) : rc[i].op = ops[i]
            /\ \A i \in 1..Len(rc) : rc[i].ret = Str(Raise) <=> i = Len(rc)
            /\ pc = "Joining" => logs[Len(logs)].msg = error_msg("research")
            /\ Len(rc) >= 5 =>
                  /\ memory # << >>
                  /\ memory[Len(memory)] = rc[3].ret
            /\ Len(rc) < 4 => memory = before.memory

\* analyze_research, or the store of the analysis, raised after the result
\* had been stored.
C31_Witness ==
    /\ ResearchFailed
    /\ Len(research_calls) >= 5
    /\ pc = "Joining"

----------------------------------------------------------------------------
\* The operations that the adapters call on the capability providers.
ProviderOps ==
    { "process", "learn", "dynamic_update", "generate_topic", "research",
      "analyze_research", "generate_personality" }

\* The number of calls of op made since the cycle began.
Invocations(op) == Cardinality({ i \in 1..Len(calls) : calls[i].op = op })

\* What a store call of this cycle was given: 1 the thought, 2 the research
\* result, 3 the tagged analysis, 0 anything else.
stored_kind(c) ==
    IF c.task = "cognition" /\ c.arg \in Returned("process") THEN 1
    ELSE IF c.task = "research" /\ c.arg \in Returned("research") THEN 2
    ELSE IF /\ c.task = "research"
            /\ c.arg \in { Str("GPT Analysis: ") \o a : a \in Returned("analyze_research") }
         THEN 3
    ELSE 0

store_calls == SelectSeq(calls, LAMBDA c : c.op = "store")

IsPrefix(p, q) == Len(p) <= Len(q) /\ SubSeq(q, 1, Len(p)) = p

\* Since the cycle began each provider operation has been invoked at most
\* once, store at most three times, given the thought, then the research
\* result, then the tagged analysis, and the only operations called on
\* Memory are store and get_memory_summary; after an adapter has run, the
\* items Memory held when it began are still its first items, unchanged.
BoundedCalls ==
    /\ \A i \in 1..Len(calls) :
          IF calls[i].op \in ProviderOps
          THEN \A j \in (i + 1)..Len(calls) : calls[j].op # calls[i].op
          ELSE calls[i].op \in { "store", "get_memory_summary" }
    /\ LET sc == store_calls
           kind == [ i \in 1..Len(sc) |-> stored_kind(sc[i]) ]
       IN  /\ Len(sc) <= 3
           /\ \A i \in 1..Len(sc) : kind[i] # 0
           /\ \A i \in 1..(Len(sc) - 1) : kind[i] < kind[i + 1]
    /\ before.task \in TaskSet => IsPrefix(before.memory, memory)

\* C32 (as stated)  Bounded effects per cycle: the calls of a cycle are
\* bounded as above, and no step of the orchestrator, the load_modules call
\* at the start of a cycle included, removes or rewrites an item Memory
\* holds.
C32_Original ==
    /\ []BoundedCalls
    /\ [][IsPrefix(memory, memory')]_vars

\* C32 (amended)  Bounded effects per cycle: the calls of a cycle are
\* bounded as above; the load_modules call at the start of a cycle leaves
\* the items of Memory as they are or, only when the Memory provider was
\* loaded, removes them all; no other step removes an item, and no step
\* rewrites one.
C32_BoundedEffects ==
    /\ []BoundedCalls
    /\ [][IF pc = "Reloading"
          THEN \/ memory' = memory
               \/ memory' = << >> /\ Available(modules, "memory_module")
          ELSE IsPrefix(memory, memory')]_vars

\* The load_modules call of the second cycle has emptied a Memory that held
\* the three items stored in the first cycle.
C32_Witness ==
    /\ pc = "Running"
    /\ reloads = 2
    /\ before.task = ""
    /\ Len(before.memory) = 3
    /\ memory = << >>

----------------------------------------------------------------------------
\* The adapter made a call in this cycle.
MadeCall(task) == \E i \in 1..Len(calls) : calls[i].task = task

\* C33  Module map frozen during fan-out: from the end of a load_modules
\* call to the start of the next one the orchestrator's module map is the
\* one that load_modules left, with the six names as its keys; every adapter
\* that has run in the cycle has made calls exactly when that map opens its
\* gate, the code-update adapter calling dynamic_update included.
C33_ModuleMapFrozen ==
    /\ pc # "init" => DOMAIN modules = Names
    /\ pc \in { "Joining", "Metrics", "Sleeping" } =>
          /\ modules = load_pre
          /\ \A task \in done : MadeCall(task) <=> GateOpen(task)

\* The fan-in of a cycle in which dynamic_update was called and returned,
\* with some providers available and others not.
C33_Witness ==
    /\ pc = "Metrics"
    /\ Called("code_update", "dynamic_update")
    /\ ~CallRaised("code_update", "dynamic_update")
    /\ \E a, b \in Names : Available(modules, a) /\ ~Available(modules, b)
    /\ done = TaskSet

----------------------------------------------------------------------------
\* C34  Shape of the metrics map: narrative["metrics"] is empty until the
\* first cycle has finished its fan-in; from then on its only key is
\* "last_cycle_duration", and its value is the duration measured for the
\* cycle completed last, the one the current wait was computed from.
C34_MetricsShape ==
    /\ cycle_counter = 0 => narrative.metrics = << >>
    /\ cycle_counter > 0 =>
          /\ DOMAIN narrative.metrics = { "last_cycle_duration" }
          /\ narrative.metrics["last_cycle_duration"] \in Durations
          /\ wait_time = adaptive_wait(narrative.metrics["last_cycle_duration"])

\* The second cycle has overwritten the duration of the first.
C34_Witness ==
    /\ pc = "Sleeping"
    /\ cycle_counter = 2
    /\ snap.metrics = [ k \in {"last_cycle_duration"} |-> 3000 ]
    /\ narrative.metrics = [ k \in {"last_cycle_duration"} |-> 200 ]
    /\ wait_time = 980

----------------------------------------------------------------------------
\* C35  Upper bound and saturation of the wait: for every measured
\* duration >= 0 the wait is at most the base of 1000 ms, no longer duration
\* gives a longer wait, and the wait is the floor of 500 ms exactly when the
\* duration is at least 5000 ms (otherwise it is above 500 ms and at most
\* 1000 ms).
C35_WaitSaturates ==
    (pc = "Sleeping" /\ narrative.metrics["last_cycle_duration"] >= 0) =>
        LET d == narrative.metrics["last_cycle_duration"]
        IN  /\ wait_time <= 1000
            /\ wait_time = 500 <=> d >= 5000
            /\ d < 5000 => (500 < wait_time /\ wait_time <= 1000)
            /\ \A longer \in ClockDurations :
                  longer >= d => adaptive_wait(longer) <= wait_time

\* The shortest duration at which the wait is the floor.
C35_Witness ==
    /\ pc = "Sleeping"
    /\ narrative.metrics["last_cycle_duration"] = 5000
    /\ wait_time = 500

----------------------------------------------------------------------------
\* C36  Interactive reset: when the command dispatched last is reset,
\* whatever commands came before it, the personality is "undefined", the
\* memory list is empty, the loaded flags of the six modules are what
\* initialize_system made them (they are never changed afterwards), and the
\* shell is at its prompt, where the next command is accepted.
C36_InteractiveReset ==
    /\ shell.pc # "start" => \A n \in Names : shell.loaded[n]
    /\ shell.last = << "reset" >> =>
          /\ shell.personality = "undefined"
          /\ shell.memories = << >>
          /\ shell.pc = "prompt"
          /\ shell.count < MaxCommands => ENABLED interactive_loop

\* A reset given after a query and a reload.
C36_Witness ==
    /\ shell.last = << "reset" >>
    /\ shell.count = 3
    /\ << "Cognitive Engine reloaded." >> \in Range(shell.session_log)
    /\ << "Processed query: ", "hello" >> \in Range(shell.session_log)
    /\ shell.memories = << >>

====
